---- MODULE Spec2Model ----
(***************************************************************************)
(* Model of main() in src/main.py: the Stardew Valley mod list generator.  *)
(* One run = check the game directory, load the config, iterate over the   *)
(* manifests found under Mods, render the report.                          *)
(*                                                                         *)
(* Python strings that the code takes apart (update keys, urls) are        *)
(* sequences of one-character strings; the constant parts of the url       *)
(* templates are kept as one element each.  Strings that are only copied   *)
(* (Name, Version, Description) are TLA+ strings.                          *)
(***************************************************************************)
EXTENDS Integers, Sequences, FiniteSets, TLC

\* Largest number of manifests the glob yields in one run.
MaxMods == 2

----------------------------------------------------------------------------
\* str.lower(), str.startswith(), str.split(':'), str.format()

UpperChars == <<"A","B","C","D","E","F","G","H","I","J","K","L","M",
                "N","O","P","Q","R","S","T","U","V","W","X","Y","Z">>

LowerChars == <<"a","b","c","d","e","f","g","h","i","j","k","l","m",
                "n","o","p","q","r","s","t","u","v","w","x","y","z">>

LowerChar(c) ==
    IF \E k \in DOMAIN UpperChars : UpperChars[k] = c
    THEN LowerChars[CHOOSE k \in DOMAIN UpperChars : UpperChars[k] = c]
    ELSE c

Lower(s) == [k \in DOMAIN s |-> LowerChar(s[k])]

StartsWith(s, p) == Len(s) >= Len(p) /\ SubSeq(s, 1, Len(p)) = p

RECURSIVE Split(_, _)
Split(s, d) ==
    IF \A k \in DOMAIN s : s[k] # d
    THEN <<s>>
    ELSE LET k == CHOOSE k \in DOMAIN s : s[k] = d /\ \A j \in 1..(k-1) : s[j] # d
         IN  <<SubSeq(s, 1, k-1)>> \o Split(SubSeq(s, k+1, Len(s)), d)

Format(t, id) == t.pre \o id \o t.post

S_chucklefish == <<"c","h","u","c","k","l","e","f","i","s","h">>
S_nexus == <<"n","e","x","u","s">>
S_github == <<"g","i","t","h","u","b">>

T_chucklefish == [pre |-> <<"https://community.playstarbound.com/resources/">>, post |-> <<"/">>]
T_nexus == [pre |-> <<"https://www.nexusmods.com/stardewvalley/mods/">>, post |-> <<>>]
T_github == [pre |-> <<"https://github.com/">>, post |-> <<"/releases">>]

----------------------------------------------------------------------------
\* The files of one installation

Fields == {"Name", "Version", "Description", "UpdateKeys", "ContentPackFor"}

\* first entries of UpdateKeys
K_nexus12 == <<"n","e","x","u","s",":","1","2">>
K_Nexus12 == <<"N","e","x","u","s",":","1","2">>
K_GitHubOwRe == <<"G","i","t","H","u","b",":","O","w","/","R","e">>
K_githubor == <<"g","i","t","h","u","b",":","o","/","r">>
K_chucklefish42 == <<"c","h","u","c","k","l","e","f","i","s","h",":","4","2">>
K_moddrop7 == <<"m","o","d","d","r","o","p",":","7">>
K_nexus == <<"n","e","x","u","s">>
K_foo == <<"f","o","o">>
K_nexusmods5 == <<"n","e","x","u","s","m","o","d","s",":","5">>
K_nexus1c2 == <<"n","e","x","u","s",":","1",":","2">>

KeyLists ==
    { <<>>, <<K_nexus12>>, <<K_Nexus12>>, <<K_GitHubOwRe>>, <<K_chucklefish42>>,
      <<K_moddrop7>>, <<K_nexus>>, <<K_foo>>, <<K_nexusmods5>>, <<K_nexus1c2>>,
      <<K_nexus12, K_githubor>> }

\* a manifest.json whose text parses: has = the keys of the parsed object
MF(has, name, keys) ==
    [parses |-> TRUE, has |-> has, Name |-> name, Version |-> "1.0",
     Description |-> "d", UpdateKeys |-> keys]

\* a manifest.json whose text is not JSON even with comments stripped
Unparseable ==
    [parses |-> FALSE, has |-> {}, Name |-> "", Version |-> "",
     Description |-> "", UpdateKeys |-> <<>>]

Files ==
    {Unparseable, MF({}, "", <<>>), MF({"Name"}, "A", <<>>), MF({"Version"}, "", <<>>)}
    \cup {MF({"Name", "Version"}, n, <<>>) : n \in {"A", "B"}}
    \cup {MF({"Name", "Version", "ContentPackFor"}, n, <<>>) : n \in {"A", "B"}}
    \cup {MF({"Name", "Version", "Description"}, "A", <<>>)}
    \cup {MF({"Name", "Version", "UpdateKeys"}, "A", ks) : ks \in KeyLists}

RECURSIVE SeqsUpTo(_, _)
SeqsUpTo(S, n) ==
    IF n = 0 THEN {<<>>}
    ELSE LET shorter == SeqsUpTo(S, n - 1)
         IN  shorter \cup {Append(q, x) : q \in {r \in shorter : Len(r) = n - 1}, x \in S}

\* the config file: absent, not JSON, an object without "Framework", or
\* an object whose "Framework" is the list ["B"]
ConfigFiles == {"absent", "invalid", "noFramework", "valid"}

DefaultConfig == [has |-> {"Framework"}, Framework |-> <<>>]

ParsedConfig(c) ==
    IF c = "valid" THEN [has |-> {"Framework"}, Framework |-> <<"B">>]
    ELSE [has |-> {}, Framework |-> <<>>]

Buckets == {"Framework", "Content", "Regular"}

EmptyRes == [b \in Buckets |-> <<>>]

----------------------------------------------------------------------------
VARIABLES
    hasGameExe,   \* 'Stardew Valley.exe' exists in gamedir
    hasSmapiExe,  \* 'StardewModdingAPI.exe' exists in gamedir
    configFile,   \* state of the config file
    mods,         \* the manifest files the glob yields, in order
    pc,           \* position in main()
    config,       \* the dict config
    i,            \* index in mods of the next manifest of the for loop
    res,          \* the dict res
    src,          \* for each list of res, the index in mods of each record
    opened,       \* number of manifests opened so far
    rendered,     \* number of calls of template.render
    exc           \* the exception that left main(), "" if none

vars == <<hasGameExe, hasSmapiExe, configFile, mods, pc, config, i, res, src,
          opened, rendered, exc>>

Init ==
    /\ hasGameExe \in BOOLEAN
    /\ hasSmapiExe \in BOOLEAN
    /\ configFile \in ConfigFiles
    /\ mods \in SeqsUpTo(Files, MaxMods)
    /\ pc = "check"
    /\ config = DefaultConfig
    /\ i = 1
    /\ res = EmptyRes
    /\ src = EmptyRes
    /\ opened = 0
    /\ rendered = 0
    /\ exc = ""

----------------------------------------------------------------------------
\* bool(gamedir / name): a Path object has neither __bool__ nor __len__
PathTruth(exists) == TRUE

\* lines 66-74
CheckInstall ==
    /\ pc = "check"
    /\ pc' = IF ~ PathTruth(hasGameExe) THEN "exit1"
             ELSE IF ~ PathTruth(hasSmapiExe) THEN "exit1"
             ELSE "config"
    /\ UNCHANGED <<hasGameExe, hasSmapiExe, configFile, mods, config, i, res,
                   src, opened, rendered, exc>>

\* lines 76-85
LoadedConfig(c) ==
    IF c = "absent" THEN DefaultConfig
    ELSE IF c = "invalid" THEN DefaultConfig
    ELSE ParsedConfig(c)

LoadConfig ==
    /\ pc = "config"
    /\ config' = LoadedConfig(configFile)
    /\ pc' = "scan"
    /\ UNCHANGED <<hasGameExe, hasSmapiExe, configFile, mods, i, res, src,
                   opened, rendered, exc>>

----------------------------------------------------------------------------
\* lines 112-126: the value of mod['url']
ResolveLink(m) ==
    IF "UpdateKeys" \notin m.has THEN <<>>
    ELSE IF Len(m.UpdateKeys) = 0 THEN <<>>
    ELSE LET mod_link == Lower(m.UpdateKeys[1])
             parts == Split(mod_link, ":")
         IN  IF StartsWith(mod_link, S_chucklefish)
             THEN IF Len(parts) < 2 THEN <<>> ELSE Format(T_chucklefish, parts[2])
             ELSE IF StartsWith(mod_link, S_nexus)
             THEN IF Len(parts) < 2 THEN <<>> ELSE Format(T_nexus, parts[2])
             ELSE IF StartsWith(mod_link, S_github)
             THEN IF Len(parts) < 2 THEN <<>> ELSE Format(T_github, parts[2])
             ELSE mod_link

\* lines 109-110, 126
ModOf(m) ==
    [name |-> m.Name, version |-> m.Version,
     description |-> IF "Description" \in m.has THEN m.Description ELSE "???",
     url |-> ResolveLink(m)]

InSeq(x, s) == \E k \in DOMAIN s : s[k] = x

ClassifyFrameworkFirst(m, cfg) ==
    IF "Framework" \notin cfg.has /\ "ContentPackFor" \notin m.has THEN "KeyError"
    ELSE IF "Framework" \in cfg.has /\ InSeq(m.Name, cfg.Framework) THEN "Framework"
    ELSE IF "ContentPackFor" \in m.has THEN "Content"
    ELSE "Regular"

\* lines 128-134: the list of res the record goes to, or the KeyError of
\* config['Framework']
Classify(m, cfg) ==
    IF "ContentPackFor" \in m.has THEN "Content"
    ELSE IF "Framework" \notin cfg.has THEN "KeyError"
    ELSE IF InSeq(m.Name, cfg.Framework) THEN "Framework"
    ELSE "Regular"

AppendFront(r, b, x) == [r EXCEPT ![b] = <<x>> \o @]

\* list.append on res[b]
AppendTo(r, b, x) == [r EXCEPT ![b] = Append(@, x)]

\* lines 89-134, one iteration of the for loop.  dumpOk: the statements of
\* the except branch (lines 96-102) complete without raising.
Iteration(m, cfg, dumpOk) ==
    IF ~ m.parses
    THEN IF dumpOk THEN [kind |-> "skip", exc |-> "", bucket |-> ""]
         ELSE [kind |-> "raise", exc |-> "dump", bucket |-> ""]
    ELSE IF m.has = {}
    THEN [kind |-> "skip", exc |-> "", bucket |-> ""]
    ELSE IF "Name" \notin m.has
    THEN [kind |-> "raise", exc |-> "KeyError:Name", bucket |-> ""]
    ELSE IF "Version" \notin m.has
    THEN [kind |-> "raise", exc |-> "KeyError:Version", bucket |-> ""]
    ELSE IF Classify(m, cfg) = "KeyError"
    THEN [kind |-> "raise", exc |-> "KeyError:Framework", bucket |-> ""]
    ELSE [kind |-> "append", exc |-> "", bucket |-> Classify(m, cfg)]

ProcessManifest ==
    /\ pc = "scan"
    /\ i <= Len(mods)
    /\ \E dumpOk \in BOOLEAN :
         LET m == mods[i]
             o == Iteration(m, config, dumpOk)
         IN  /\ opened' = opened + 1
             /\ IF o.kind = "raise"
                THEN /\ pc' = "raised"
                     /\ exc' = o.exc
                     /\ UNCHANGED <<i, res, src>>
                ELSE /\ i' = i + 1
                     /\ UNCHANGED <<pc, exc>>
                     /\ IF o.kind = "append"
                        THEN /\ res' = AppendTo(res, o.bucket, ModOf(m))
                             /\ src' = [src EXCEPT ![o.bucket] = Append(@, i)]
                        ELSE UNCHANGED <<res, src>>
    /\ UNCHANGED <<hasGameExe, hasSmapiExe, configFile, mods, config, rendered>>

\* lines 136-138
Render ==
    /\ pc = "scan"
    /\ i > Len(mods)
    /\ rendered' = rendered + 1
    /\ pc' = "done"
    /\ UNCHANGED <<hasGameExe, hasSmapiExe, configFile, mods, config, i, res,
                   src, opened, exc>>

Next == CheckInstall \/ LoadConfig \/ ProcessManifest \/ Render

Spec == Init /\ [][Next]_vars

----------------------------------------------------------------------------
\* Vocabulary of the properties

Providers == {S_chucklefish, S_nexus, S_github}

TemplateOf(p) ==
    IF p = S_chucklefish THEN T_chucklefish
    ELSE IF p = S_nexus THEN T_nexus
    ELSE T_github

\* the (list, position) places of res
Places == {<<b, j>> \in Buckets \X (1..MaxMods + 1) : j \in DOMAIN res[b]}

ManifestAt(pl) == mods[src[pl[1]][pl[2]]]

RecordAt(pl) == res[pl[1]][pl[2]]

HasFirstKey(m) == "UpdateKeys" \in m.has /\ Len(m.UpdateKeys) > 0

FirstKey(m) == m.UpdateKeys[1]

\* the run was ended by an exception raised while manifest k was processed
AbortedAt(k) == pc = "raised" /\ i = k

Recorded(k) == \E pl \in Places : src[pl[1]][pl[2]] = k

\* C1: when a marker file is missing the run stops before the scan: no
\* manifest is opened, no record is appended, nothing is rendered.
C1_Claim ==
    (~ hasGameExe \/ ~ hasSmapiExe) =>
        /\ pc \in {"check", "exit1"}
        /\ opened = 0
        /\ res = EmptyRes
        /\ rendered = 0

\* C2: a manifest that parses but lacks Name or Version is skipped: the run
\* is not ended by an exception at it and it has no record in any list.
C2_Claim ==
    \A k \in DOMAIN mods :
        (mods[k].parses /\ ~ ({"Name", "Version"} \subseteq mods[k].has)) =>
            ~ AbortedAt(k) /\ ~ Recorded(k)

RefBucket(m, overrides) ==
    IF "ContentPackFor" \in m.has THEN "Content"
    ELSE IF InSeq(m.Name, overrides) THEN "Framework"
    ELSE "Regular"

\* C3: every record is in the list the reference function names: Content
\* when ContentPackFor is present, else Framework when Name is in the
\* override list, else Regular.
C3_Thm ==
    \A pl \in Places : pl[1] = RefBucket(ManifestAt(pl), config.Framework)

C3_Witness ==
    /\ \E j \in DOMAIN res.Content : InSeq(res.Content[j].name, config.Framework)
    /\ Len(res.Framework) > 0

\* C4: when the first update key is P:ID with P a known provider up to
\* letter case, the url of the record is the template of P filled with ID.
C4_Claim ==
    \A pl \in Places :
        LET m == ManifestAt(pl) IN
        (HasFirstKey(m) /\ Len(Split(FirstKey(m), ":")) = 2
                        /\ Lower(Split(FirstKey(m), ":")[1]) \in Providers) =>
            RecordAt(pl).url = Format(TemplateOf(Lower(Split(FirstKey(m), ":")[1])),
                                     Split(FirstKey(m), ":")[2])

Unresolvable(m) ==
    \/ ~ HasFirstKey(m)
    \/ Len(Split(FirstKey(m), ":")) < 2
    \/ Lower(Split(FirstKey(m), ":")[1]) \notin Providers

\* C5: a record whose manifest has no resolvable update key (missing, empty,
\* no ':' in the first entry, unknown provider) has the empty url.
C5_Claim ==
    \A pl \in Places : Unresolvable(ManifestAt(pl)) => RecordAt(pl).url = <<>>

\* C6: when a provider matches, the id in the url is the second ':'-separated
\* segment of the first update key as written in the manifest.
C6_Claim ==
    \A pl \in Places :
        LET m == ManifestAt(pl) IN
        \A p \in Providers :
            (HasFirstKey(m) /\ StartsWith(Lower(FirstKey(m)), p)
                            /\ Len(Split(FirstKey(m), ":")) >= 2) =>
                RecordAt(pl).url = Format(TemplateOf(p), Split(FirstKey(m), ":")[2])

\* C7: a manifest that does not parse is skipped, whether or not the dump of
\* the failure branch succeeds: the run is not ended at it, it has no record.
C7_Claim ==
    \A k \in DOMAIN mods :
        (~ mods[k].parses) => ~ AbortedAt(k) /\ ~ Recorded(k)

\* C8: the override list never makes the run fail: with the config file
\* absent or invalid nothing is in Framework, and no config content makes
\* the lookup of the list end the run.
C8_Claim ==
    /\ (configFile \in {"absent", "invalid"}) => res.Framework = <<>>
    /\ exc # "KeyError:Framework"

\* C9: the run is never ended before the render step, the renderer is called
\* at most once, and only after the last manifest.
C9_Claim ==
    /\ pc # "raised"
    /\ rendered <= 1
    /\ rendered = 1 => (pc = "done" /\ i > Len(mods))
    /\ pc = "done" => rendered = 1

Succeeded(m) == m.parses /\ {"Name", "Version"} \subseteq m.has

C10_Inv ==
    /\ \A b \in Buckets :
         /\ Len(src[b]) = Len(res[b])
         /\ \A j \in DOMAIN res[b] : res[b][j] = ModOf(mods[src[b][j]])
         /\ \A j, k \in DOMAIN src[b] : j < k => src[b][j] < src[b][k]
    /\ \A k \in 1..(i - 1) :
         Cardinality({pl \in Places : src[pl[1]][pl[2]] = k})
             = IF Succeeded(mods[k]) THEN 1 ELSE 0
    /\ \A pl \in Places : src[pl[1]][pl[2]] < i

C10_AppendOnly ==
    \A b \in Buckets :
        /\ Len(res[b]) <= Len(res'[b])
        /\ SubSeq(res'[b], 1, Len(res[b])) = res[b]

\* C10: the three lists only grow at the end and hold, in discovery order,
\* exactly one record for each manifest processed successfully so far, each
\* in exactly one list.
C10_Thm == [] C10_Inv /\ [][C10_AppendOnly]_vars

C10_Witness ==
    \E b \in Buckets :
        /\ Len(res[b]) = 2
        /\ res[b][1].name = res[b][2].name
        /\ res[b][1] # res[b][2]

====
